---------------------------- MODULE Spec2Model ----------------------------
(* A model of src/src/extension.ts: the settings view provider, the       *)
(* toggle-feature command, and the two command dispatchers                *)
(* (get-current-path and open-in-external-terminal).                      *)
(*                                                                        *)
(* The configuration store is a key-value map in which a key is either    *)
(* absent (<<>>) or holds one value (<<v>>); config.get(key, d) yields d  *)
(* for an absent key.  vscode.workspace.getConfiguration returns a        *)
(* snapshot of the store, which a handler keeps in its local `config`.    *)
EXTENDS Naturals, Sequences, FiniteSets, TLC

VARIABLES
    platform,     \* process.platform
    store,        \* the host's configuration store, namespace 'nekotools'
    store0,       \* history: the store as it was when the extension was activated
    tog,          \* the toggleFeature invocations, in order of invocation
    lastWriter,   \* history: per key, the invocation whose update was applied last
    view,         \* the last getChildren call: its config snapshot and its result
    treeChanged,  \* an onDidChangeTreeData event is fired and not yet consumed
    cmd           \* the dispatcher invocations, in order of invocation

vars == <<platform, store, store0, tog, lastWriter, view, treeChanged, cmd>>

-----------------------------------------------------------------------------
(* Bounds *)

\* toggleFeature invocations in one behaviour
MaxToggles == 2
\* toggleFeature invocations in one behaviour of the view's specification
MaxViewToggles == 1
\* dispatcher invocations in one behaviour
MaxCmds == 1

-----------------------------------------------------------------------------
(* The configuration store *)

GetPathEnabledKey == "features.getPathEnabled"
OpenTerminalEnabledKey == "features.openTerminalEnabled"
ShowIconsKey == "path.showIcons"
AutoClipboardKey == "path.autoClipboard"
WindowsKey == "terminal.windows"
LinuxKey == "terminal.linux"
CustomCommandKey == "terminal.customCommand"

BoolKeys == {GetPathEnabledKey, OpenTerminalEnabledKey, ShowIconsKey, AutoClipboardKey}
TermKeys == {WindowsKey, LinuxKey, CustomCommandKey}
Keys == BoolKeys \cup TermKeys

Absent == <<>>
BoolEntries == {Absent, <<TRUE>>, <<FALSE>>}

\* config.get(key, defaultValue)
ConfigGet(config, key, defaultValue) ==
    IF config[key] = Absent THEN defaultValue ELSE config[key][1]

\* config.update(key, value, ConfigurationTarget.Global), once the host applied it
ConfigUpdate(config, key, value) == [config EXCEPT ![key] = <<value>>]

-----------------------------------------------------------------------------
(* NekoToolsSettingsProvider *)

Setting(config, key, defaultValue) ==
    [key |-> key, type |-> "boolean", value |-> ConfigGet(config, key, defaultValue)]

\* the mutant of getSettings: the last entry read with the wrong default
GetSettingsWrongDefault(config) ==
    << Setting(config, GetPathEnabledKey, TRUE),
       Setting(config, OpenTerminalEnabledKey, TRUE),
       Setting(config, ShowIconsKey, TRUE),
       Setting(config, AutoClipboardKey, TRUE) >>

\* getSettings(): four snapshots, in declaration order
GetSettings(config) ==
    << Setting(config, GetPathEnabledKey, TRUE),
       Setting(config, OpenTerminalEnabledKey, TRUE),
       Setting(config, ShowIconsKey, TRUE),
       Setting(config, AutoClipboardKey, FALSE) >>

NoView == [called |-> FALSE, root |-> FALSE, config |-> [k \in Keys |-> Absent], items |-> <<>>]

\* getChildren(undefined): the root's children are the settings
GetChildren ==
    /\ view' = [called |-> TRUE, root |-> TRUE, config |-> store, items |-> GetSettings(store)]
    /\ treeChanged' = FALSE
    /\ UNCHANGED <<platform, store, store0, tog, lastWriter, cmd>>

\* getChildren(element): a setting has no children
GetChildrenOfElement ==
    /\ view.called /\ view.root
    /\ \E n \in 1..Len(view.items) :
          view' = [called |-> TRUE, root |-> FALSE, config |-> view.config, items |-> <<>>]
    /\ UNCHANGED <<platform, store, store0, tog, lastWriter, treeChanged, cmd>>

\* the command nekotools.refreshSettings: refresh() fires onDidChangeTreeData
RefreshSettings ==
    /\ treeChanged' = TRUE
    /\ UNCHANGED <<platform, store, store0, tog, lastWriter, view, cmd>>

-----------------------------------------------------------------------------
(* The command nekotools.toggleFeature *)

\* the text of the confirmation: `已启用` when the written value is true
ToggleNote(written) == IF written THEN "enabled" ELSE "disabled"

\* const currentValue = config.get<boolean>(configKey, true)
ToggleRead(config, configKey) == ConfigGet(config, configKey, TRUE)

\* the mutant of ToggleWritten: the handler writes the value it read
ToggleWrittenSame(currentValue) == currentValue

\* the value handed to config.update: !currentValue
ToggleWritten(currentValue) == ~currentValue

\* the handler up to its await: read the key, hand the negation to config.update
ToggleFeature(configKey) ==
    /\ Len(tog) < MaxToggles
    /\ tog' = Append(tog,
          [ configKey    |-> configKey,
            currentValue |-> ToggleRead(store, configKey),
            pc           |-> "update",
            note         |-> "none",
            overlapped   |-> \E j \in 1..Len(tog) :
                                tog[j].configKey = configKey /\ tog[j].pc = "update" ])
    /\ UNCHANGED <<platform, store, store0, lastWriter, view, treeChanged, cmd>>

\* the host applies the update of invocation i to the store
ConfigUpdateApplied(i) ==
    /\ tog[i].pc = "update"
    /\ store' = ConfigUpdate(store, tog[i].configKey, ToggleWritten(tog[i].currentValue))
    /\ lastWriter' = [lastWriter EXCEPT ![tog[i].configKey] = i]
    /\ tog' = [tog EXCEPT ![i].pc = "resume"]
    /\ UNCHANGED <<platform, store0, view, treeChanged, cmd>>

\* the handler after its await: refresh the view, show the confirmation
ToggleFeatureResume(i) ==
    /\ tog[i].pc = "resume"
    /\ treeChanged' = TRUE
    /\ tog' = [tog EXCEPT ![i].pc = "done",
                          ![i].note = ToggleNote(ToggleWritten(tog[i].currentValue))]
    /\ UNCHANGED <<platform, store, store0, lastWriter, view, cmd>>

-----------------------------------------------------------------------------
(* The settings view and the toggle command *)

Platforms == {"win32", "darwin", "linux"}

Init ==
    /\ platform = "linux"
    /\ store \in { f @@ [k \in TermKeys |-> Absent] : f \in [BoolKeys -> BoolEntries] }
    /\ store0 = store
    /\ tog = <<>>
    /\ lastWriter = [k \in BoolKeys |-> 0]
    /\ view = NoView
    /\ treeChanged = FALSE
    /\ cmd = <<>>

Next ==
    \/ RefreshSettings
    \/ \E k \in BoolKeys : ToggleFeature(k)
    \/ \E i \in 1..Len(tog) : ConfigUpdateApplied(i)
    \/ \E i \in 1..Len(tog) : ToggleFeatureResume(i)

Spec == Init /\ [][Next]_vars

\* the view queried while toggles run
NextView ==
    \/ GetChildren
    \/ GetChildrenOfElement
    \/ RefreshSettings
    \/ \E k \in BoolKeys : Len(tog) < MaxViewToggles /\ ToggleFeature(k)
    \/ \E i \in 1..Len(tog) : ConfigUpdateApplied(i)
    \/ \E i \in 1..Len(tog) : ToggleFeatureResume(i)

SpecView == Init /\ [][NextView]_vars

-----------------------------------------------------------------------------
(* Section 6 of the specification: the declared settings and their defaults *)

DeclaredOrder == <<GetPathEnabledKey, OpenTerminalEnabledKey, ShowIconsKey, AutoClipboardKey>>

DeclaredDefault(key) == IF key = AutoClipboardKey THEN FALSE ELSE TRUE

\* the value a store holds for a key, an absent key taking its declared default
DeclaredValue(config, key) ==
    IF config[key] = Absent THEN DeclaredDefault(key) ELSE config[key][1]

\* the value listSettings reports for a key
Listed(config, key) ==
    LET items == GetSettings(config)
        n == CHOOSE n \in 1..Len(items) : items[n].key = key
    IN  items[n].value

-----------------------------------------------------------------------------
(* Claims about the settings view and the toggle command *)

\* C1: every root query of the view returns exactly the four declared
\* settings, in declaration order, each with the value the store held at the
\* query, an absent key taking its declared default (true, true, true,
\* false); whatever was queried or toggled before.
C1_ListSettingsMirrorsStore ==
    (view.called /\ view.root) =>
        /\ Len(view.items) = 4
        /\ \A n \in 1..4 :
              /\ view.items[n].key = DeclaredOrder[n]
              /\ view.items[n].value = DeclaredValue(view.config, DeclaredOrder[n])

\* C1 witness: the view is queried after a toggle has changed the store, with
\* path.autoClipboard absent and a flag stored as false.
C1_Witness ==
    /\ view.called /\ view.root
    /\ view.config # store0
    /\ view.config[AutoClipboardKey] = Absent
    /\ \E k \in BoolKeys : view.config[k] = <<FALSE>>
    /\ \E i \in 1..Len(tog) : tog[i].pc = "done"

TogglesOf(key) == { i \in 1..Len(tog) : tog[i].configKey = key }

\* every toggle of the key has completed, and none read the key while
\* another one's update was still on its way to the store
Sequential(key) ==
    \A i \in TogglesOf(key) : tog[i].pc = "done" /\ ~tog[i].overlapped

\* C2: with the toggles of a key run one after the other, listSettings
\* reports the negation of the key's initial value after one toggle, and the
\* initial value again after two.
C2_ToggleInvolution ==
    \A k \in BoolKeys :
        Sequential(k) =>
            /\ Cardinality(TogglesOf(k)) = 1 => Listed(store, k) = ~Listed(store0, k)
            /\ Cardinality(TogglesOf(k)) = 2 => Listed(store, k) = Listed(store0, k)

RECURSIVE NegatedTimes(_, _)
NegatedTimes(value, times) ==
    IF times = 0 THEN value ELSE NegatedTimes(~value, times - 1)

AllDone(key) ==
    /\ TogglesOf(key) # {}
    /\ \A i \in TogglesOf(key) : tog[i].pc = "done"

NoteNamesWritten(i) ==
    tog[i].note = IF tog[i].currentValue THEN "disabled" ELSE "enabled"

\* C10 as stated: once every toggle of a key has completed, whatever their
\* interleaving, the stored value is the initial value (an absent key read as
\* the handler reads it, true) negated once per toggle, and each confirmation
\* names the value its invocation wrote.
C10_NoToggleLost ==
    \A k \in BoolKeys :
        AllDone(k) =>
            /\ store[k] = << NegatedTimes(IF store0[k] = Absent THEN TRUE ELSE store0[k][1],
                                          Cardinality(TogglesOf(k))) >>
            /\ \A i \in TogglesOf(k) : NoteNamesWritten(i)

\* C10 as amended: the last writer wins.  Once every toggle of a key has
\* completed, the stored value is the negation of the value read by the
\* invocation whose update was applied last, and each confirmation names the
\* value its invocation wrote; and when no toggle read the key while another
\* one's update was pending, the stored value is the initial value negated
\* once per toggle.
C10_LastWriterWins ==
    \A k \in BoolKeys :
        AllDone(k) =>
            /\ lastWriter[k] \in TogglesOf(k)
            /\ store[k] = << ~tog[lastWriter[k]].currentValue >>
            /\ \A i \in TogglesOf(k) : NoteNamesWritten(i)
            /\ Sequential(k) =>
                  store[k] = << NegatedTimes(IF store0[k] = Absent THEN TRUE ELSE store0[k][1],
                                             Cardinality(TogglesOf(k))) >>

\* C10 witness: two toggles of one key have completed, the second having read
\* the key before the first one's update was applied: one toggle is lost.
C10_Witness ==
    \E k \in BoolKeys :
        /\ AllDone(k)
        /\ Cardinality(TogglesOf(k)) = 2
        /\ \E i \in TogglesOf(k) : tog[i].overlapped
        /\ store0[k] # Absent
        /\ store[k] # store0[k]

-----------------------------------------------------------------------------
(* Paths, notifications and the state of one dispatcher invocation *)

\* A path is the sequence of its segments below the root.  The name $& is a
\* legal file name that is also a String.prototype.replace pattern.
Paths == { <<>>, <<"a">>, <<"a", "b">>, <<"$&">>, <<"a", "$&">> }

\* an optional path: the command's uri argument, window.activeTextEditor
NoPath == <<>>
OptionalPaths == {NoPath} \cup { <<p>> : p \in Paths }

\* path.dirname
Dirname(p) == IF p = <<>> THEN <<>> ELSE SubSeq(p, 1, Len(p) - 1)

\* a notification: show{Warning,Error,Information}Message(text, ...actions)
Notification(level, text, path, icon, copied, actions) ==
    [level |-> level, text |-> text, path |-> path, icon |-> icon,
     copied |-> copied, actions |-> actions]

Warning(text) == Notification("warning", text, <<>>, FALSE, FALSE, {})
ErrorMessage(text) == Notification("error", text, <<>>, FALSE, FALSE, {})
Information(text, path) == Notification("information", text, path, FALSE, FALSE, {})

CopyAction == "copyPath"

\* a handler's locals and what it has done so far
Invocation(kind, config, uri) ==
    [ kind          |-> kind,
      config        |-> config,
      uri           |-> uri,
      pc            |-> "done",
      isEnabled     |-> FALSE,
      showIcons     |-> FALSE,
      autoClipboard |-> FALSE,
      targetPath    |-> <<>>,
      stat          |-> "none",
      selection     |-> "none",
      terminalPath  |-> <<>>,
      command       |-> <<>>,
      notes         |-> <<>>,
      clipboard     |-> <<>>,
      execs         |-> <<>> ]

Invoke(c) ==
    /\ Len(cmd) < MaxCmds
    /\ cmd' = Append(cmd, c)
    /\ UNCHANGED <<platform, store, store0, tog, lastWriter, view, treeChanged>>

Step(i, c) ==
    /\ cmd' = [cmd EXCEPT ![i] = c]
    /\ UNCHANGED <<platform, store, store0, tog, lastWriter, view, treeChanged>>

-----------------------------------------------------------------------------
(* The command nekotools.getCurrentFilePath *)

\* the mutant of PathIsEnabled: the flag is not consulted
PathIsEnabledIgnored(config) == TRUE

\* config.get<boolean>('features.getPathEnabled', false)
PathIsEnabled(config) == ConfigGet(config, GetPathEnabledKey, FALSE)

\* config.get<boolean>('path.showIcons', true)
PathShowIcons(config) == ConfigGet(config, ShowIconsKey, TRUE)

\* config.get<boolean>('path.autoClipboard', true)
PathAutoClipboard(config) == ConfigGet(config, AutoClipboardKey, TRUE)

\* the mutant of Present: the path is copied in both modes
PresentAlwaysCopies(c, text) ==
    IF c.autoClipboard
    THEN [c EXCEPT !.clipboard = Append(@, c.targetPath),
                   !.notes = Append(@, Notification("information", text, c.targetPath,
                                                    c.showIcons, TRUE, {})),
                   !.pc = "done"]
    ELSE [c EXCEPT !.clipboard = Append(@, c.targetPath),
                   !.notes = Append(@, Notification("information", text, c.targetPath,
                                                    c.showIcons, FALSE, {CopyAction})),
                   !.pc = "prompt"]

\* the two modes: copy and confirm, or show the path and offer the copy action
Present(c, text) ==
    IF c.autoClipboard
    THEN [c EXCEPT !.clipboard = Append(@, c.targetPath),
                   !.notes = Append(@, Notification("information", text, c.targetPath,
                                                    c.showIcons, TRUE, {})),
                   !.pc = "done"]
    ELSE [c EXCEPT !.notes = Append(@, Notification("information", text, c.targetPath,
                                                    c.showIcons, FALSE, {CopyAction})),
                   !.pc = "prompt"]

\* the handler, up to its return
GetCurrentFilePath(uri, activeEditor) ==
    LET c0 == [Invocation("path", store, uri) EXCEPT !.isEnabled = PathIsEnabled(store)]
        c1 == [c0 EXCEPT !.showIcons = PathShowIcons(store),
                         !.autoClipboard = PathAutoClipboard(store)]
    IN  IF ~c0.isEnabled
        THEN Invoke([c0 EXCEPT !.notes = <<Warning("getPathDisabled")>>])
        ELSE IF uri # NoPath
        THEN Invoke([c1 EXCEPT !.targetPath = uri[1], !.stat = "pending", !.pc = "stat"])
        ELSE IF activeEditor # NoPath
        THEN Invoke(Present([c1 EXCEPT !.targetPath = activeEditor[1]], "currentFilePath"))
        ELSE Invoke([c1 EXCEPT !.notes = <<Warning("noOpenFile")>>])

\* workspace.fs.stat(uri) resolves: the two `then` callbacks run
PathStatResolved(i, type) ==
    /\ cmd[i].kind = "path" /\ cmd[i].pc = "stat"
    /\ Step(i, Present([cmd[i] EXCEPT !.stat = type],
                       IF type = "directory" THEN "folderPath" ELSE "filePath"))

\* workspace.fs.stat(uri) rejects: neither `then` has a rejection handler
PathStatRejected(i) ==
    /\ cmd[i].kind = "path" /\ cmd[i].pc = "stat"
    /\ Step(i, [cmd[i] EXCEPT !.stat = "failed", !.pc = "done"])

\* the user selects the copy action of the notification
CopySelected(i) ==
    /\ cmd[i].kind = "path" /\ cmd[i].pc = "prompt"
    /\ Step(i, [cmd[i] EXCEPT !.selection = CopyAction,
                              !.clipboard = Append(@, cmd[i].targetPath),
                              !.notes = Append(@, Information("pathCopied", <<>>)),
                              !.pc = "done"])

\* the user dismisses the notification: selection is undefined
Dismissed(i) ==
    /\ cmd[i].kind = "path" /\ cmd[i].pc = "prompt"
    /\ Step(i, [cmd[i] EXCEPT !.selection = "undefined", !.pc = "done"])

-----------------------------------------------------------------------------
(* The command nekotools.openInExternalTerminal *)

\* the mutant of TerminalIsEnabled: the flag is not consulted
TerminalIsEnabledIgnored(config) == TRUE

\* config.get<boolean>('features.openTerminalEnabled', false)
TerminalIsEnabled(config) == ConfigGet(config, OpenTerminalEnabledKey, FALSE)

\* A command line is a sequence of pieces of text; the text of a path is its
\* segments, each after a separator.
RECURSIVE Segments(_)
Segments(p) == IF p = <<>> THEN <<>> ELSE <<"/", Head(p)>> \o Segments(Tail(p))

PathText(p) == IF p = <<>> THEN <<"/">> ELSE Segments(p)

Placeholder == "{path}"

\* the values of terminal.customCommand: '', and templates with one, two and
\* no placeholder
EmptyTemplate == <<>>
Templates ==
    { EmptyTemplate,
      <<"kitty -d ", Placeholder>>,
      <<"sh -c 'cd ", Placeholder, " && ls ", Placeholder, "'">>,
      <<"xterm">> }

\* the replacement string as String.prototype.replace expands it: $& stands
\* for the matched text
Expanded(text, matched) ==
    [n \in 1..Len(text) |-> IF text[n] = "$&" THEN matched ELSE text[n]]

\* customCommand.replace('{path}', terminalPath): the first match only
Replace(template, text) ==
    IF \A n \in 1..Len(template) : template[n] # Placeholder
    THEN template
    ELSE LET n == CHOOSE n \in 1..Len(template) :
                     /\ template[n] = Placeholder
                     /\ \A m \in 1..(n - 1) : template[m] # Placeholder
         IN  SubSeq(template, 1, n - 1) \o Expanded(text, Placeholder)
                 \o SubSeq(template, n + 1, Len(template))

WtCommand(t) == <<"wt -d \"">> \o t \o <<"\"">>
CmdCommand(t) == <<"start cmd /k \"cd /d \"">> \o t \o <<"\"\"">>
PowershellCommand(t) ==
    <<"start powershell -NoExit -Command \"Set-Location '">> \o t \o <<"'\"">>
GnomeCommand(t) == <<"gnome-terminal --working-directory=\"">> \o t \o <<"\"">>
XtermCommand(t) == <<"xterm -e \"cd '">> \o t \o <<"'; bash\"">>
KonsoleCommand(t) == <<"konsole --workdir \"">> \o t \o <<"\"">>

\* the win32 switch
WindowsCommand(config, t) ==
    LET windowsTerminal == ConfigGet(config, WindowsKey, "wt")
    IN  CASE windowsTerminal = "wt" -> WtCommand(t)
          [] windowsTerminal = "cmd" -> CmdCommand(t)
          [] windowsTerminal = "powershell" -> PowershellCommand(t)
          [] OTHER -> WtCommand(t) \o <<" || ">> \o CmdCommand(t)

\* macOS
DarwinCommand(t) == <<"open -a Terminal \"">> \o t \o <<"\"">>

\* the mutant of CustomCommandMissing: only an absent key counts as missing
CustomCommandMissingIfAbsent(config) == config[CustomCommandKey] = Absent

\* `if (customCommand)` fails: the template is '' (also the default of get)
CustomCommandMissing(config) == ConfigGet(config, CustomCommandKey, EmptyTemplate) = EmptyTemplate

\* the Linux switch, the custom case with a template
LinuxCommand(config, t) ==
    LET linuxTerminal == ConfigGet(config, LinuxKey, "gnome-terminal")
        customCommand == ConfigGet(config, CustomCommandKey, EmptyTemplate)
    IN  CASE linuxTerminal = "gnome-terminal" -> GnomeCommand(t)
          [] linuxTerminal = "xterm" -> XtermCommand(t)
          [] linuxTerminal = "konsole" -> KonsoleCommand(t)
          [] linuxTerminal = "custom" -> Replace(customCommand, t)
          [] OTHER -> GnomeCommand(t) \o <<" || ">> \o XtermCommand(t)
                          \o <<" || ">> \o KonsoleCommand(t)

\* the custom case without a template: the handler reports it and returns
AbortsForMissingCustomCommand(os, config) ==
    /\ os \notin {"win32", "darwin"}
    /\ ConfigGet(config, LinuxKey, "gnome-terminal") = "custom"
    /\ CustomCommandMissing(config)

\* the command line for a platform, a configuration and a directory
BuildCommand(os, config, terminalPath) ==
    IF os = "win32" THEN WindowsCommand(config, PathText(terminalPath))
    ELSE IF os = "darwin" THEN DarwinCommand(PathText(terminalPath))
    ELSE LinuxCommand(config, PathText(terminalPath))

\* the handler, up to its return
OpenInExternalTerminal(uri, activeEditor) ==
    LET c0 == [Invocation("terminal", store, uri) EXCEPT
                   !.isEnabled = TerminalIsEnabled(store)]
    IN  IF ~c0.isEnabled
        THEN Invoke([c0 EXCEPT !.notes = <<Warning("openTerminalDisabled")>>])
        ELSE IF uri # NoPath
        THEN Invoke([c0 EXCEPT !.targetPath = uri[1], !.stat = "pending", !.pc = "stat"])
        ELSE IF activeEditor # NoPath
        THEN Invoke([c0 EXCEPT !.targetPath = activeEditor[1], !.stat = "pending",
                               !.pc = "stat"])
        ELSE Invoke([c0 EXCEPT !.notes = <<Warning("noSelection")>>])

\* the directory the terminal is opened in
TerminalPath(targetPath, type) ==
    IF type # "directory" THEN Dirname(targetPath) ELSE targetPath

\* workspace.fs.stat(fileUri) resolves: build the command and hand it to exec
TerminalStatResolved(i, type) ==
    /\ cmd[i].kind = "terminal" /\ cmd[i].pc = "stat"
    /\ LET c == [cmd[i] EXCEPT !.stat = type,
                               !.terminalPath = TerminalPath(cmd[i].targetPath, type)]
           command == BuildCommand(platform, c.config, c.terminalPath)
       IN  IF AbortsForMissingCustomCommand(platform, c.config)
           THEN Step(i, [c EXCEPT !.notes = Append(@, ErrorMessage("noCustomCommand")),
                                  !.pc = "done"])
           ELSE Step(i, [c EXCEPT !.command = command,
                                  !.execs = Append(@, command),
                                  !.pc = "exec"])

\* workspace.fs.stat(fileUri) rejects: the rejection handler reports it
TerminalStatRejected(i) ==
    /\ cmd[i].kind = "terminal" /\ cmd[i].pc = "stat"
    /\ Step(i, [cmd[i] EXCEPT !.stat = "failed",
                              !.notes = Append(@, ErrorMessage("pathInaccessible")),
                              !.pc = "done"])

\* the callback of exec
ExecCompleted(i, error) ==
    /\ cmd[i].kind = "terminal" /\ cmd[i].pc = "exec"
    /\ Step(i, [cmd[i] EXCEPT
           !.notes = Append(@, IF error THEN ErrorMessage("cannotOpenTerminal")
                               ELSE Information("openedInTerminal", cmd[i].terminalPath)),
           !.pc = "done"])

-----------------------------------------------------------------------------
(* The dispatchers' specifications *)

FileTypes == {"file", "directory"}

\* the terminal settings: a preference of any value and, with the custom
\* preference, any template
TerminalSettings ==
    { (WindowsKey :> w) @@ (LinuxKey :> l) @@ (CustomCommandKey :> c) :
          w \in {Absent} \cup { <<t>> : t \in {"wt", "cmd", "powershell", "other"} },
          l \in {Absent} \cup
                { <<t>> : t \in {"gnome-terminal", "xterm", "konsole", "custom", "other"} },
          c \in {Absent} \cup { <<t>> : t \in Templates } }

\* the settings a platform does not read are absent, and so is a template
\* without the custom preference
SettingsFor(os) ==
    { s \in TerminalSettings :
          /\ os # "win32" => s[WindowsKey] = Absent
          /\ os \in {"win32", "darwin"} => s[LinuxKey] = Absent
          /\ s[CustomCommandKey] # Absent => s[LinuxKey] = <<"custom">> }

\* the flags that may be stored, the others absent
FlagsOf(keys) ==
    { f \in [BoolKeys -> BoolEntries] : \A k \in BoolKeys \ keys : f[k] = Absent }

InitWith(keys) ==
    /\ platform \in Platforms
    /\ store \in { f @@ t : f \in FlagsOf(keys), t \in SettingsFor(platform) }
    /\ store0 = store
    /\ tog = <<>>
    /\ lastWriter = [k \in BoolKeys |-> 0]
    /\ view = NoView
    /\ treeChanged = FALSE
    /\ cmd = <<>>

\* the path dispatcher reads neither the terminal's flag, nor its settings,
\* nor the platform: they are left absent, on a platform that reads none
InitPath ==
    /\ InitWith({GetPathEnabledKey, ShowIconsKey, AutoClipboardKey})
    /\ platform = "darwin"

NextPath ==
    \/ \E uri \in OptionalPaths, activeEditor \in OptionalPaths :
          GetCurrentFilePath(uri, activeEditor)
    \/ \E i \in 1..Len(cmd), type \in FileTypes : PathStatResolved(i, type)
    \/ \E i \in 1..Len(cmd) : PathStatRejected(i)
    \/ \E i \in 1..Len(cmd) : CopySelected(i)
    \/ \E i \in 1..Len(cmd) : Dismissed(i)

SpecPath == InitPath /\ [][NextPath]_vars

\* the terminal dispatcher reads one flag
InitTerminal == InitWith({OpenTerminalEnabledKey})

NextTerminal ==
    \/ \E uri \in OptionalPaths, activeEditor \in OptionalPaths :
          OpenInExternalTerminal(uri, activeEditor)
    \/ \E i \in 1..Len(cmd), type \in FileTypes : TerminalStatResolved(i, type)
    \/ \E i \in 1..Len(cmd) : TerminalStatRejected(i)
    \/ \E i \in 1..Len(cmd), error \in BOOLEAN : ExecCompleted(i, error)

SpecTerminal == InitTerminal /\ [][NextTerminal]_vars

\* both dispatchers, over every store
InitCommands == InitWith(BoolKeys)

NextCommands == NextPath \/ NextTerminal

SpecCommands == InitCommands /\ [][NextCommands]_vars

-----------------------------------------------------------------------------
(* Claims about the dispatchers *)

Invocations(kind) == { i \in 1..Len(cmd) : cmd[i].kind = kind }

\* C3: an invocation of get-current-path that finds features.getPathEnabled
\* stored as false has shown the disabled warning and done nothing else: no
\* type query, no clipboard write, no other notification, no process, and
\* the store is as it was.
C3_PathDisabledDoesNothing ==
    \A i \in Invocations("path") :
        cmd[i].config[GetPathEnabledKey] = <<FALSE>> =>
            /\ cmd[i].pc = "done"
            /\ cmd[i].notes = <<Warning("getPathDisabled")>>
            /\ cmd[i].stat = "none"
            /\ cmd[i].clipboard = <<>>
            /\ cmd[i].execs = <<>>
            /\ store = store0

\* C3 witness: a disabled invocation with an explicit reference, while
\* auto-copy is stored as true.
C3_Witness ==
    \E i \in Invocations("path") :
        /\ cmd[i].config[GetPathEnabledKey] = <<FALSE>>
        /\ cmd[i].config[AutoClipboardKey] = <<TRUE>>
        /\ cmd[i].uri # NoPath
        /\ cmd[i].pc = "done"

\* C4: an invocation of open-in-external-terminal that finds
\* features.openTerminalEnabled stored as false has shown the disabled
\* warning, on every platform and with every terminal preference, and has
\* issued no type query and handed no command to exec.
C4_TerminalDisabledDoesNothing ==
    \A i \in Invocations("terminal") :
        cmd[i].config[OpenTerminalEnabledKey] = <<FALSE>> =>
            /\ cmd[i].pc = "done"
            /\ cmd[i].notes = <<Warning("openTerminalDisabled")>>
            /\ cmd[i].stat = "none"
            /\ cmd[i].command = <<>>
            /\ cmd[i].execs = <<>>

\* C4 witness: a disabled invocation on Windows with the cmd preference and
\* an explicit reference.
C4_Witness ==
    \E i \in Invocations("terminal") :
        /\ cmd[i].config[OpenTerminalEnabledKey] = <<FALSE>>
        /\ platform = "win32"
        /\ cmd[i].config[WindowsKey] = <<"cmd">>
        /\ cmd[i].uri # NoPath
        /\ cmd[i].pc = "done"

\* the target of an invocation resolved: an explicit reference whose type
\* query succeeded, or the active document
Resolved(c) ==
    \/ c.uri # NoPath /\ c.stat \in FileTypes
    \/ c.uri = NoPath /\ c.notes # <<Warning("noOpenFile")>>

\* C5: an invocation of get-current-path that finds the feature stored as
\* enabled and whose target resolved follows the two modes.  With
\* path.autoClipboard stored as true it has written the path to the clipboard
\* exactly once and shown exactly one notification, without an action.  With
\* it stored as false it has written nothing while the user has not
\* answered, the path exactly once when the user selected the copy action,
\* and nothing when the user dismissed the notification.
C5_TwoModes ==
    \A i \in Invocations("path") :
        LET c == cmd[i] IN
        (c.config[GetPathEnabledKey] = <<TRUE>> /\ Resolved(c)) =>
            /\ c.config[AutoClipboardKey] = <<TRUE>> =>
                  /\ c.pc = "done"
                  /\ c.clipboard = <<c.targetPath>>
                  /\ Len(c.notes) = 1
                  /\ c.notes[1].level = "information"
                  /\ c.notes[1].path = c.targetPath
                  /\ c.notes[1].actions = {}
            /\ c.config[AutoClipboardKey] = <<FALSE>> =>
                  /\ c.pc \in {"prompt", "done"}
                  /\ c.notes[1].actions = {CopyAction}
                  /\ c.pc = "prompt" => c.clipboard = <<>>
                  /\ (c.pc = "done" /\ c.selection = CopyAction) =>
                        c.clipboard = <<c.targetPath>>
                  /\ (c.pc = "done" /\ c.selection # CopyAction) => c.clipboard = <<>>

\* C5 witness: with auto-copy stored as false, the user selected the copy
\* action for an explicit reference that is a directory.
C5_Witness ==
    \E i \in Invocations("path") :
        /\ cmd[i].config[GetPathEnabledKey] = <<TRUE>>
        /\ cmd[i].config[AutoClipboardKey] = <<FALSE>>
        /\ cmd[i].stat = "directory"
        /\ cmd[i].selection = CopyAction
        /\ cmd[i].clipboard = <<cmd[i].targetPath>>

\* C6: on Linux with the custom preference and no template (the key absent
\* or the empty string), an enabled invocation whose type query succeeded has
\* ended with the missing-configuration error and has handed nothing to exec,
\* so neither outcome of a spawn is ever shown.
C6_CustomWithoutTemplate ==
    \A i \in Invocations("terminal") :
        LET c == cmd[i] IN
        ( /\ platform = "linux"
          /\ c.config[OpenTerminalEnabledKey] = <<TRUE>>
          /\ c.config[LinuxKey] = <<"custom">>
          /\ c.config[CustomCommandKey] \in {Absent, <<EmptyTemplate>>}
          /\ c.stat \in FileTypes ) =>
            /\ c.pc = "done"
            /\ c.notes = <<ErrorMessage("noCustomCommand")>>
            /\ c.command = <<>>
            /\ c.execs = <<>>

\* C6 witness: the template is stored as the empty string and the target is a
\* file.
C6_Witness ==
    \E i \in Invocations("terminal") :
        /\ platform = "linux"
        /\ cmd[i].config[LinuxKey] = <<"custom">>
        /\ cmd[i].config[CustomCommandKey] = <<EmptyTemplate>>
        /\ cmd[i].stat = "file"
        /\ cmd[i].pc = "done"

\* text `part` stands somewhere in text `whole`
Within(part, whole) ==
    \E n \in 0..(Len(whole) - Len(part)) : SubSeq(whole, n + 1, n + Len(part)) = part

\* C7: a command handed to exec holds the text of the working directory, the
\* resolved path when the type query reported a directory and its parent
\* when it reported a file, on every platform and with every preference (a
\* custom template holds it in place of its first placeholder); on Windows
\* with the cmd preference the command is start cmd /k "cd /d "<dir>"".
C7_WorkingDirectoryInCommand ==
    \A i \in Invocations("terminal") :
        LET c == cmd[i]
            dir == IF c.stat = "directory" THEN c.targetPath ELSE Dirname(c.targetPath)
            custom == platform = "linux" /\ c.config[LinuxKey] = <<"custom">>
        IN  c.execs # <<>> =>
              /\ c.execs = <<c.command>>
              /\ (custom /\ ~Within(<<Placeholder>>, c.config[CustomCommandKey][1]))
                    \/ Within(PathText(dir), c.command)
              /\ (platform = "win32" /\ c.config[WindowsKey] = <<"cmd">>) =>
                    c.command = <<"start cmd /k \"cd /d \"">> \o PathText(dir) \o <<"\"\"">>

\* C7 away from the pattern: the same, for every invocation but those of a
\* custom template with a working directory that holds the name $&.
WorkingDirectoryInCommandWithoutPattern ==
    \A i \in Invocations("terminal") :
        LET c == cmd[i]
            dir == IF c.stat = "directory" THEN c.targetPath ELSE Dirname(c.targetPath)
            custom == platform = "linux" /\ c.config[LinuxKey] = <<"custom">>
        IN  (c.execs # <<>> /\ ~(custom /\ \E n \in 1..Len(dir) : dir[n] = "$&")) =>
              /\ c.execs = <<c.command>>
              /\ (custom /\ ~Within(<<Placeholder>>, c.config[CustomCommandKey][1]))
                    \/ Within(PathText(dir), c.command)
              /\ (platform = "win32" /\ c.config[WindowsKey] = <<"cmd">>) =>
                    c.command = <<"start cmd /k \"cd /d \"">> \o PathText(dir) \o <<"\"\"">>

\* C8: an invocation that has ended has shown a notification.
C8_NoSilentEnd ==
    \A i \in 1..Len(cmd) : cmd[i].pc = "done" => Len(cmd[i].notes) >= 1

\* C9: the value a dispatcher acts on for a flag is the value listSettings
\* reports for it in the same store.
C9_DispatchersAgreeWithView ==
    \A i \in 1..Len(cmd) :
        LET c == cmd[i] IN
        /\ c.kind = "path" =>
              /\ c.isEnabled = Listed(c.config, GetPathEnabledKey)
              /\ c.isEnabled =>
                    /\ c.showIcons = Listed(c.config, ShowIconsKey)
                    /\ c.autoClipboard = Listed(c.config, AutoClipboardKey)
        /\ c.kind = "terminal" =>
              c.isEnabled = Listed(c.config, OpenTerminalEnabledKey)

=============================================================================
